---------------------------- MODULE Spec2Model ----------------------------
(***************************************************************************)
(* Model of the recommendation engine (models/recommendation_engine.py):   *)
(* the catalog (products_df), the similarity matrix built from it at       *)
(* start-up, the interaction log (interactions_df) and the five engine     *)
(* operations.                                                             *)
(*                                                                         *)
(* Numbers.  Prices are whole units, ratings are tenths of a star, so a    *)
(* trending score is kept times 10.  A similarity score is the cosine of   *)
(* two feature vectors with non-negative components; it is kept exactly,   *)
(* as the reduced fraction <<n, d>> of its square, which orders and        *)
(* identifies scores exactly as the cosine itself does.                    *)
(***************************************************************************)
EXTENDS Integers, Sequences, FiniteSets, TLC

(***************************************************************************)
(* Bounds of the model.                                                    *)
(***************************************************************************)
MaxProducts == 3
MaxLog == 2
MaxLimit == 2
MaxThreads == 3
\* rows of the catalog the service layer is run on
WideProducts == 12

\* limit=10 passed by get_recommendations_for_user to get_similar_products
CandidateWidth == 10

\* Config.DEFAULT_RECOMMENDATIONS_LIMIT
DEFAULT_RECOMMENDATIONS_LIMIT == 5

\* Config.MAX_RECOMMENDATIONS_LIMIT
MAX_RECOMMENDATIONS_LIMIT == 50

\* Config.MAX_PAGE_SIZE
MAX_PAGE_SIZE == 100

Users == {"u1", "u2"}

\* product ids and names by catalog row
ProductIds == <<"P1", "P2", "P3", "P4", "P5", "P6", "P7", "P8", "P9", "P10",
                "P11", "P12", "P13", "P14">>
ProductNames == <<"Product 1", "Product 2", "Product 3", "Product 4",
                  "Product 5", "Product 6", "Product 7", "Product 8",
                  "Product 9", "Product 10", "Product 11", "Product 12",
                  "Product 13", "Product 14">>

\* a product id that no catalog row carries
DanglingId == "PX"

\* the attribute rows a catalog is drawn from
PoolRows ==
  << [category |-> "Electronics", price |-> 10, rating |-> 45, views |-> 10, purchases |-> 2],
     [category |-> "Electronics", price |-> 11, rating |-> 40, views |-> 4,  purchases |-> 1],
     [category |-> "Books",       price |-> 10, rating |-> 45, views |-> 0,  purchases |-> 8] >>

ProductPool == {PoolRows[i] : i \in DOMAIN PoolRows}

\* rating=None
NoRating == -1

\* the (interaction_type, rating) pairs recorded: the defaults of
\* add_user_interaction
InteractionInputs == { [interaction_type |-> "view", rating |-> NoRating] }

\* the ids an interaction may name: rows 1, 2 of the catalog (dangling when
\* the catalog is shorter) and an id that is never in the catalog
InteractionProducts == {ProductIds[1], ProductIds[2], DanglingId}

\* the (user_id, product_id) pairs add_user_interaction is called with: one
\* user records two catalog products and the dangling id, the other one
\* catalog product
InteractionCalls ==
  ({"u1"} \X InteractionProducts) \cup {<<"u2", ProductIds[1]>>}

QueryProducts == {ProductIds[i] : i \in 1..MaxProducts} \cup {DanglingId}
QueryCategories == {"electronics", "Books", "Toys"}
Limits == 1..MaxLimit
\* the limits asked of the service layer: from below 1 to above the maximum
RequestedLimits == (0 - 1)..(MAX_RECOMMENDATIONS_LIMIT + 1)
\* the page sizes asked of the service layer, around 1 and the maximum
RequestedPageSizes ==
  {0 - 1, 0, 1, 2, MAX_PAGE_SIZE - 1, MAX_PAGE_SIZE, MAX_PAGE_SIZE + 1}
\* the limits asked of get_recommendations_for_user
UserLimits == Limits \cup {DEFAULT_RECOMMENDATIONS_LIMIT}
Threads == 1..MaxThreads

VARIABLES products_df, product_similarity_matrix, interactions_df,
          request, response, pc, frame

vars == <<products_df, product_similarity_matrix, interactions_df,
          request, response, pc, frame>>

\* the engine's attributes
engine == <<products_df, product_similarity_matrix, interactions_df>>
\* the request threads: where each is, and its local variables
threads == <<pc, frame>>

(***************************************************************************)
(* Arithmetic helpers.                                                     *)
(***************************************************************************)
RECURSIVE Gcd(_, _)
Gcd(a, b) == IF b = 0 THEN a ELSE Gcd(b, a % b)

Fraction(n, d) ==
  IF n = 0 THEN <<0, 1>> ELSE LET g == Gcd(n, d) IN <<n \div g, d \div g>>

\* a > b for fractions with positive denominators
FracGreater(a, b) == a[1] * b[2] > b[1] * a[2]

\* sum, product and quotient of fractions, reduced
FracAdd(a, b) == Fraction(a[1] * b[2] + b[1] * a[2], a[2] * b[2])
FracMul(a, b) == Fraction(a[1] * b[1], a[2] * b[2])
FracDiv(a, b) == Fraction(a[1] * b[2], a[2] * b[1])

Min(S) == CHOOSE x \in S : \A y \in S : x <= y
Max(S) == CHOOSE x \in S : \A y \in S : x >= y

Range(s) == {s[i] : i \in DOMAIN s}

Take(s, n) == SubSeq(s, 1, IF n < Len(s) THEN n ELSE Len(s))


RECURSIVE SumOver(_, _)
SumOver(f, S) ==
  IF S = {} THEN 0
  ELSE LET x == CHOOSE y \in S : TRUE IN f[x] + SumOver(f, S \ {x})

\* the orders in which the elements of S can be enumerated
IterationOrders(S) ==
  {o \in [1..Cardinality(S) -> S] : \A i, j \in DOMAIN o : o[i] = o[j] => i = j}

(***************************************************************************)
(* Stable descending sort of a sequence of <<index, key>> pairs, the key a *)
(* fraction: Python's sorted(..., reverse=True) and pandas' nlargest       *)
(* (keep='first') both leave rows of equal key in their original order.    *)
(***************************************************************************)
\* an insertion that puts a row before the rows of equal key
RECURSIVE InsertDescBeforeEqual(_, _)
InsertDescBeforeEqual(sorted, x) ==
  IF sorted = <<>> THEN <<x>>
  ELSE IF ~FracGreater(Head(sorted)[2], x[2]) THEN <<x>> \o sorted
  ELSE <<Head(sorted)>> \o InsertDescBeforeEqual(Tail(sorted), x)

RECURSIVE InsertDesc(_, _)
InsertDesc(sorted, x) ==
  IF sorted = <<>> THEN <<x>>
  ELSE IF FracGreater(x[2], Head(sorted)[2]) THEN <<x>> \o sorted
  ELSE <<Head(sorted)>> \o InsertDesc(Tail(sorted), x)

RECURSIVE SortedDescFrom(_, _)
SortedDescFrom(pairs, acc) ==
  IF pairs = <<>> THEN acc
  ELSE SortedDescFrom(Tail(pairs), InsertDesc(acc, Head(pairs)))

SortedDesc(pairs) == SortedDescFrom(pairs, <<>>)

\* DataFrame.nlargest(n, column): the n rows of largest key, first rows
\* first among equal keys
nlargest(n, pairs) == Take(SortedDesc(pairs), n)

(***************************************************************************)
(* The catalog: load_data.                                                 *)
(***************************************************************************)
ProductRow(i, attrs) ==
  [product_id |-> ProductIds[i], name |-> ProductNames[i],
   category |-> attrs.category, price |-> attrs.price,
   rating |-> attrs.rating, views |-> attrs.views,
   purchases |-> attrs.purchases]

\* the catalog P1(Electronics, 100, 4.5, 1000 views, 50 purchases),
\* P2(Electronics, 110, 4.0, 500, 20), P3(Books, 10, 5.0, 10, 1)
ScenarioCatalog ==
  << ProductRow(1, [category |-> "Electronics", price |-> 100, rating |-> 45,
                    views |-> 1000, purchases |-> 50]),
     ProductRow(2, [category |-> "Electronics", price |-> 110, rating |-> 40,
                    views |-> 500, purchases |-> 20]),
     ProductRow(3, [category |-> "Books", price |-> 10, rating |-> 50,
                    views |-> 10, purchases |-> 1]) >>

\* catalogs of WideProducts rows, the pool's rows in turn
WideCatalogs ==
  { [i \in 1..WideProducts |-> ProductRow(i, PoolRows[((i + k) % Len(PoolRows)) + 1])]
    : k \in 0..(Len(PoolRows) - 1) }

Catalogs ==
  UNION { { [i \in 1..n |-> ProductRow(i, t[i])] : t \in [1..n -> ProductPool] }
          : n \in 0..MaxProducts }
    \cup {ScenarioCatalog}

(***************************************************************************)
(* Feature encoding and similarity: _compute_product_similarity.           *)
(***************************************************************************)
\* pd.get_dummies: one column per category present, 1 in the row's own
get_dummies(df) ==
  LET cats == {df[i].category : i \in DOMAIN df}
  IN [i \in DOMAIN df |-> [c \in cats |-> IF df[i].category = c THEN 1 ELSE 0]]

\* a scaling by the maximum alone
MinMaxScalerByMax(col) ==
  LET hi == Max(Range(col))
      scale == IF hi = 0 THEN 1 ELSE hi
  IN [i \in DOMAIN col |-> Fraction(col[i], scale)]

\* MinMaxScaler.fit_transform on one column: (x - min) / (max - min), the
\* divisor replaced by 1 when max = min; the values are fractions
MinMaxScaler(col) ==
  LET lo == Min(Range(col))
      hi == Max(Range(col))
      scale == IF hi = lo THEN 1 ELSE hi - lo
  IN [i \in DOMAIN col |-> Fraction(col[i] - lo, scale)]

Features(df) ==
  LET category_dummies == get_dummies(df)
      price == MinMaxScaler([i \in DOMAIN df |-> df[i].price])
      rating == MinMaxScaler([i \in DOMAIN df |-> df[i].rating])
  IN [i \in DOMAIN df |->
        [dummies |-> category_dummies[i], price |-> price[i], rating |-> rating[i]]]

\* dot product of two feature vectors, a fraction
Dot(u, v) ==
  LET cats == DOMAIN u.dummies
  IN FracAdd(<<SumOver([c \in cats |-> u.dummies[c] * v.dummies[c]], cats), 1>>,
             FracAdd(FracMul(u.price, v.price), FracMul(u.rating, v.rating)))

\* a similarity normalised by the first vector's length alone
CosineByFirstNorm(u, v) ==
  IF Dot(u, u)[1] = 0 \/ Dot(v, v)[1] = 0 THEN <<0, 1>>
  ELSE FracDiv(FracMul(Dot(u, v), Dot(u, v)), FracMul(Dot(u, u), Dot(u, u)))

\* sklearn cosine_similarity: dot / (|u| |v|), 0 when a norm is 0; the
\* value kept is the square, as a reduced fraction
Cosine(u, v) ==
  IF Dot(u, u)[1] = 0 \/ Dot(v, v)[1] = 0 THEN <<0, 1>>
  ELSE FracDiv(FracMul(Dot(u, v), Dot(u, v)), FracMul(Dot(u, u), Dot(v, v)))

cosine_similarity(features) ==
  [i \in DOMAIN features |-> [j \in DOMAIN features |-> Cosine(features[i], features[j])]]

\* product_similarity_matrix stays None for an empty catalog
None == <<>>

initialize_models(df) ==
  IF df # <<>> THEN cosine_similarity(Features(df)) ELSE None

(***************************************************************************)
(* The read operations.                                                    *)
(***************************************************************************)
\* rows of the frame whose product_id is the argument, in row order
RowsWithId(df, product_id) ==
  SelectSeq([i \in DOMAIN df |-> i], LAMBDA i : df[i].product_id = product_id)

SimilarRecord(df, pair) ==
  LET product == df[pair[1]]
  IN [product_id |-> product.product_id, name |-> product.name,
      category |-> product.category, price |-> product.price,
      rating |-> product.rating, similarity_score |-> pair[2]]

\* the slice taken one place too far, [1:limit+2]
SliceAfterFirstTooLong(sorted, limit) ==
  SubSeq(sorted, 2, IF limit + 2 < Len(sorted) THEN limit + 2 ELSE Len(sorted))

\* the slice [1:limit+1] of the sorted scores
SliceAfterFirst(sorted, limit) ==
  SubSeq(sorted, 2, IF limit + 1 < Len(sorted) THEN limit + 1 ELSE Len(sorted))

\* a lookup that yields position -1, the last row, for an id it does not find
get_similar_products_of_last_row(df, matrix, product_id, limit) ==
  IF df = <<>> \/ matrix = None THEN <<>>
  ELSE LET product_idx == IF RowsWithId(df, product_id) = <<>> THEN Len(df)
                          ELSE RowsWithId(df, product_id)[1]
           similarity_scores ==
             [idx \in DOMAIN df |-> <<idx, matrix[product_idx][idx]>>]
           top == SliceAfterFirst(SortedDesc(similarity_scores), limit)
       IN [n \in DOMAIN top |-> SimilarRecord(df, top[n])]

get_similar_products(df, matrix, product_id, limit) ==
  IF df = <<>> \/ matrix = None THEN <<>>
  ELSE IF RowsWithId(df, product_id) = <<>> THEN <<>>
  ELSE LET product_idx == RowsWithId(df, product_id)[1]
           similarity_scores ==
             [idx \in DOMAIN df |-> <<idx, matrix[product_idx][idx]>>]
           top == SliceAfterFirst(SortedDesc(similarity_scores), limit)
       IN [n \in DOMAIN top |-> SimilarRecord(df, top[n])]

\* the weights of views and purchases exchanged
trending_score_swapped(row) == 5 * row.views + 3 * row.purchases + 20 * row.rating

\* views * 0.3 + purchases * 0.5 + rating * 100 * 0.2, times 10; the rating
\* is in tenths
trending_score(row) == 3 * row.views + 5 * row.purchases + 20 * row.rating

TrendingRecord(row) ==
  [product_id |-> row.product_id, name |-> row.name,
   category |-> row.category, price |-> row.price, rating |-> row.rating,
   views |-> row.views, purchases |-> row.purchases]

get_trending_products(df, limit) ==
  IF df = <<>> THEN <<>>
  ELSE LET trending ==
             nlargest(limit, [i \in DOMAIN df |-> <<i, <<trending_score(df[i]), 1>>>>])
       IN [n \in DOMAIN trending |-> TrendingRecord(df[trending[n][1]])]

\* str.lower() on the category names that occur
Lower(s) ==
  CASE s = "Electronics" -> "electronics"
    [] s = "Books" -> "books"
    [] s = "Toys" -> "toys"
    [] OTHER -> s

CategoryRecord(row) ==
  [product_id |-> row.product_id, name |-> row.name,
   category |-> row.category, price |-> row.price, rating |-> row.rating]

\* a match that compares the category as written
get_products_by_category_case_sensitive(df, category, limit) ==
  IF df = <<>> THEN <<>>
  ELSE LET category_products ==
             SelectSeq([i \in DOMAIN df |-> i],
                       LAMBDA i : df[i].category = category)
           top == nlargest(limit,
                           [n \in DOMAIN category_products |->
                              <<category_products[n],
                                <<df[category_products[n]].rating, 1>>>>])
       IN [n \in DOMAIN top |-> CategoryRecord(df[top[n][1]])]

get_products_by_category(df, category, limit) ==
  IF df = <<>> THEN <<>>
  ELSE LET category_products ==
             SelectSeq([i \in DOMAIN df |-> i],
                       LAMBDA i : Lower(df[i].category) = Lower(category))
           top == nlargest(limit,
                           [n \in DOMAIN category_products |->
                              <<category_products[n],
                                <<df[category_products[n]].rating, 1>>>>])
       IN [n \in DOMAIN top |-> CategoryRecord(df[top[n][1]])]

(***************************************************************************)
(* get_recommendations_for_user.                                           *)
(***************************************************************************)
\* a selection that forgets the user
UserInteractionsOfAnyone(log, user_id) == log

\* interactions_df[interactions_df['user_id'] == user_id]
UserInteractions(log, user_id) ==
  SelectSeq(log, LAMBDA r : r.user_id = user_id)

\* the product ids of everybody's interactions
InteractedProductsOfAnyone(log, user_id) ==
  {r.product_id : r \in Range(log)}

\* only the product of the user's latest interaction
InteractedProductsLatest(log, user_id) ==
  LET mine == UserInteractions(log, user_id)
  IN IF mine = <<>> THEN {} ELSE {mine[Len(mine)].product_id}

\* set(user_interactions['product_id'].tolist())
InteractedProducts(log, user_id) ==
  {r.product_id : r \in Range(UserInteractions(log, user_id))}

\* a loop that gives up at the first product without similar products
RECURSIVE ExtendSimilarUntilEmpty(_, _, _)
ExtendSimilarUntilEmpty(df, matrix, order) ==
  IF order = <<>> THEN <<>>
  ELSE LET similar == get_similar_products(df, matrix, Head(order), CandidateWidth)
       IN IF similar = <<>> THEN <<>>
          ELSE similar \o ExtendSimilarUntilEmpty(df, matrix, Tail(order))

\* the for loop over interacted_products, in the order the set yields them
RECURSIVE ExtendSimilar(_, _, _)
ExtendSimilar(df, matrix, order) ==
  IF order = <<>> THEN <<>>
  ELSE get_similar_products(df, matrix, Head(order), CandidateWidth)
         \o ExtendSimilar(df, matrix, Tail(order))

\* a loop that never records what it has seen
RECURSIVE RemoveDuplicatesForgetful(_, _)
RemoveDuplicatesForgetful(recommendations, seen) ==
  IF recommendations = <<>> THEN <<>>
  ELSE LET rec == Head(recommendations)
       IN IF rec.product_id \notin seen
          THEN <<rec>> \o RemoveDuplicatesForgetful(Tail(recommendations), seen)
          ELSE RemoveDuplicatesForgetful(Tail(recommendations), seen)

\* the loop over the recommendations that keeps the first record of each id
RECURSIVE RemoveDuplicates(_, _)
RemoveDuplicates(recommendations, seen) ==
  IF recommendations = <<>> THEN <<>>
  ELSE LET rec == Head(recommendations)
       IN IF rec.product_id \notin seen
          THEN <<rec>> \o RemoveDuplicates(Tail(recommendations),
                                           seen \cup {rec.product_id})
          ELSE RemoveDuplicates(Tail(recommendations), seen)

\* the personalised branch without the filter of lines 104-107
PersonalisedUnfiltered(df, matrix, interacted_products, order, limit) ==
  Take(RemoveDuplicates(ExtendSimilar(df, matrix, order), {}), limit)

\* the loop fetching only `limit` similar products of each product
RECURSIVE ExtendSimilarNarrow(_, _, _, _)
ExtendSimilarNarrow(df, matrix, order, limit) ==
  IF order = <<>> THEN <<>>
  ELSE get_similar_products(df, matrix, Head(order), limit)
         \o ExtendSimilarNarrow(df, matrix, Tail(order), limit)

\* the personalised branch over candidate lists of width `limit`
PersonalisedNarrow(df, matrix, interacted_products, order, limit) ==
  LET recommendations ==
        SelectSeq(ExtendSimilarNarrow(df, matrix, order, limit),
                  LAMBDA rec : rec.product_id \notin interacted_products)
  IN Take(RemoveDuplicates(recommendations, {}), limit)

\* the personalised branch, for one iteration order of the set
\* a personalised list that gives the trending products when it is empty
PersonalisedOrTrending(df, matrix, interacted_products, order, limit) ==
  LET recommendations ==
        SelectSeq(ExtendSimilar(df, matrix, order),
                  LAMBDA rec : rec.product_id \notin interacted_products)
      unique_recommendations == RemoveDuplicates(recommendations, {})
  IN IF unique_recommendations = <<>>
     THEN get_trending_products(df, limit)
     ELSE Take(unique_recommendations, limit)

Personalised(df, matrix, interacted_products, order, limit) ==
  LET recommendations ==
        SelectSeq(ExtendSimilar(df, matrix, order),
                  LAMBDA rec : rec.product_id \notin interacted_products)
      unique_recommendations == RemoveDuplicates(recommendations, {})
  IN Take(unique_recommendations, limit)

\* the results the call can return: one for each order in which the set of
\* interacted products (a set of strings) can be iterated
get_recommendations_for_user(df, matrix, log, user_id, limit) ==
  IF UserInteractions(log, user_id) = <<>>
  THEN {get_trending_products(df, limit)}
  ELSE LET interacted_products == InteractedProducts(log, user_id)
       IN {Personalised(df, matrix, interacted_products, order, limit) :
             order \in IterationOrders(interacted_products)}

(***************************************************************************)
(* add_user_interaction.                                                   *)
(***************************************************************************)
\* datetime.now(): a clock that advances with every record
Now(log) == Len(log) + 1

NewInteraction(user_id, product_id, interaction_type, rating, timestamp) ==
  [user_id |-> user_id, product_id |-> product_id,
   interaction_type |-> interaction_type, rating |-> rating,
   timestamp |-> timestamp]

\* the two frames concatenated in the other order
ConcatInFront(log, new_interaction) == <<new_interaction>> \o log

\* pd.concat([interactions_df, DataFrame([new_interaction])], ignore_index=True)
Concat(log, new_interaction) == Append(log, new_interaction)

(***************************************************************************)
(* The engine called by one request at a time: request holds the call in  *)
(* progress and response what it returns, until the caller has taken it.   *)
(***************************************************************************)
Request(op, user_id, product_id, category, limit) ==
  [op |-> op, user_id |-> user_id, product_id |-> product_id,
   category |-> category, limit |-> limit]

NoRequest == Request("none", "-", "-", "-", 0)

Init ==
  /\ products_df \in Catalogs
  /\ product_similarity_matrix = initialize_models(products_df)
  /\ interactions_df = <<>>
  /\ request = NoRequest
  /\ response = <<>>
  /\ pc = [t \in Threads |-> "idle"]
  /\ frame = [t \in Threads |-> <<>>]

GetRecommendationsForUser ==
  \E user_id \in Users, limit \in UserLimits :
    /\ request = NoRequest
    /\ request' = Request("for_user", user_id, "-", "-", limit)
    /\ response' \in get_recommendations_for_user(
                       products_df, product_similarity_matrix,
                       interactions_df, user_id, limit)
    /\ UNCHANGED <<engine, threads>>

GetSimilarProducts ==
  \E product_id \in QueryProducts, limit \in Limits :
    /\ request = NoRequest
    /\ request' = Request("similar", "-", product_id, "-", limit)
    /\ response' = get_similar_products(products_df, product_similarity_matrix,
                                        product_id, limit)
    /\ UNCHANGED <<engine, threads>>

GetTrendingProducts ==
  \E limit \in Limits :
    /\ request = NoRequest
    /\ request' = Request("trending", "-", "-", "-", limit)
    /\ response' = get_trending_products(products_df, limit)
    /\ UNCHANGED <<engine, threads>>

GetProductsByCategory ==
  \E category \in QueryCategories, limit \in Limits :
    /\ request = NoRequest
    /\ request' = Request("category", "-", "-", category, limit)
    /\ response' = get_products_by_category(products_df, category, limit)
    /\ UNCHANGED <<engine, threads>>

\* a recording that also counts the interaction as a view of the product
AddUserInteractionCountsView ==
  \E call \in InteractionCalls, input \in InteractionInputs :
   LET user_id == call[1]
       product_id == call[2]
   IN
    /\ request = NoRequest
    /\ Len(interactions_df) < MaxLog
    /\ interactions_df' =
         Concat(interactions_df,
                NewInteraction(user_id, product_id, input.interaction_type,
                               input.rating, Now(interactions_df)))
    /\ products_df' =
         [i \in DOMAIN products_df |->
            IF products_df[i].product_id = product_id
            THEN [products_df[i] EXCEPT !.views = @ + 1]
            ELSE products_df[i]]
    /\ request' = Request("add", user_id, product_id, "-", 0)
    /\ response' = TRUE
    /\ UNCHANGED <<product_similarity_matrix, threads>>

AddUserInteraction ==
  \E call \in InteractionCalls, input \in InteractionInputs :
   LET user_id == call[1]
       product_id == call[2]
   IN
    /\ request = NoRequest
    /\ Len(interactions_df) < MaxLog
    /\ interactions_df' =
         Concat(interactions_df,
                NewInteraction(user_id, product_id, input.interaction_type,
                               input.rating, Now(interactions_df)))
    /\ request' = Request("add", user_id, product_id, "-", 0)
    /\ response' = TRUE
    /\ UNCHANGED <<products_df, product_similarity_matrix, threads>>

\* the call has returned and the caller has its result
Return ==
  /\ request # NoRequest
  /\ request' = NoRequest
  /\ response' = <<>>
  /\ UNCHANGED <<engine, threads>>

Next ==
  \/ GetRecommendationsForUser
  \/ GetSimilarProducts
  \/ GetTrendingProducts
  \/ GetProductsByCategory
  \/ AddUserInteraction
  \/ Return

Spec == Init /\ [][Next]_vars

(***************************************************************************)
(* The engine from load_data on: the catalog is loaded and no matrix is    *)
(* built yet; initialize_models builds it, and can be called again.        *)
(***************************************************************************)
InitLoaded ==
  /\ products_df \in Catalogs
  /\ product_similarity_matrix = None
  /\ interactions_df = <<>>
  /\ request = NoRequest
  /\ response = <<>>
  /\ pc = [t \in Threads |-> "idle"]
  /\ frame = [t \in Threads |-> <<>>]

\* a build that shifts the catalog's prices to start at 0 before scaling them
InitializeModelsInPlace ==
  /\ request = NoRequest
  /\ products_df # <<>>
  /\ products_df' =
       [i \in DOMAIN products_df |->
          [products_df[i] EXCEPT
             !.price = @ - Min({products_df[j].price : j \in DOMAIN products_df})]]
  /\ product_similarity_matrix' = initialize_models(products_df')
  /\ UNCHANGED <<interactions_df, request, response, threads>>

\* initialize_models: the matrix is built when the catalog is not empty
InitializeModels ==
  /\ request = NoRequest
  /\ products_df # <<>>
  /\ product_similarity_matrix' = initialize_models(products_df)
  /\ UNCHANGED <<products_df, interactions_df, request, response, threads>>

NextBuild ==
  \/ InitializeModels
  \/ GetSimilarProducts
  \/ AddUserInteraction
  \/ Return

SpecBuild == InitLoaded /\ [][NextBuild]_vars

(***************************************************************************)
(* Validator.validate_interaction_payload.  The values of a payload are    *)
(* JSON values: a key can be absent, null, a string or a number (ratings   *)
(* in tenths).  config/constants.py is not among the sources: its values   *)
(* are taken from the design (non-empty ids, ratings 0.0 to 5.0, the four  *)
(* interaction types), and the longest user id from nowhere but the        *)
(* comparison that uses it; ids are drawn on both sides of it.             *)
(***************************************************************************)
VALID_INTERACTION_TYPES == {"view", "purchase", "add_to_cart", "wishlist"}
MIN_RATING == 0
MAX_RATING == 50
USER_ID_MIN_LENGTH == 1
USER_ID_MAX_LENGTH == 50

Absent == [type |-> "absent", str |-> "", num |-> 0]
JNull == [type |-> "null", str |-> "", num |-> 0]
JStr(s) == [type |-> "str", str |-> s, num |-> 0]
JNum(n) == [type |-> "num", str |-> "", num |-> n]

\* a user id of USER_ID_MAX_LENGTH + 1 characters
LongUserId == "uuuuuuuuuuuuuuuuuuuuuuuuuuuuuuuuuuuuuuuuuuuuuuuuuuu"

\* len() of the strings that are drawn
len(s) ==
  CASE s = "" -> 0
    [] s = LongUserId -> USER_ID_MAX_LENGTH + 1
    [] s \in Users \cup Range(ProductIds) \cup {DanglingId} -> 2

\* float() of the strings that are drawn, in tenths; ValueError otherwise
ParsesAsFloat(s) == s = "4.5"
float(s) == CASE s = "4.5" -> 45

\* the payloads validate_interaction_payload is called with
PayloadUserIds ==
  {Absent, JNull, JNum(7), JStr(""), JStr(LongUserId)} \cup {JStr(u) : u \in Users}
PayloadProductIds ==
  {Absent, JNull, JNum(7), JStr("")} \cup {JStr(p) : p \in {ProductIds[1], DanglingId}}
PayloadInteractionTypes ==
  {Absent, JNull, JNum(7), JStr(""), JStr("view"), JStr("purchase"), JStr("refund")}
PayloadRatings ==
  {Absent, JNull, JNum(MIN_RATING - 1), JNum(MIN_RATING), JNum(45),
   JNum(MAX_RATING), JNum(MAX_RATING + 1), JStr("4.5"), JStr("abc")}
Payloads ==
  [user_id : PayloadUserIds, product_id : PayloadProductIds,
   interaction_type : PayloadInteractionTypes, rating : PayloadRatings]

\* `not value`: None, the empty string and the number 0 are falsy
Falsy(value) ==
  \/ value.type \in {"absent", "null"}
  \/ value.type = "str" /\ value.str = ""
  \/ value.type = "num" /\ value.num = 0

\* a validation of the user id that does not look at its length
validate_user_id_any_length(user_id) ==
  ~(Falsy(user_id) \/ user_id.type # "str")

\* the validate_* methods: TRUE when they return, FALSE when they raise
\* ValidationError
validate_user_id(user_id) ==
  IF Falsy(user_id) \/ user_id.type # "str" THEN FALSE
  ELSE IF len(user_id.str) < USER_ID_MIN_LENGTH \/ len(user_id.str) > USER_ID_MAX_LENGTH
       THEN FALSE
  ELSE TRUE

validate_product_id(product_id) ==
  IF Falsy(product_id) \/ product_id.type # "str" THEN FALSE
  ELSE IF len(product_id.str) < 1 THEN FALSE
  ELSE TRUE

validate_rating(rating) ==
  IF rating.type = "null" THEN TRUE
  ELSE IF rating.type = "str" /\ ~ParsesAsFloat(rating.str) THEN FALSE
  ELSE LET rating_float == IF rating.type = "str" THEN float(rating.str)
                           ELSE rating.num
       IN MIN_RATING <= rating_float /\ rating_float <= MAX_RATING

validate_interaction_type(interaction_type) ==
  IF Falsy(interaction_type) \/ interaction_type.type # "str" THEN FALSE
  ELSE interaction_type.str \in VALID_INTERACTION_TYPES

ValidationError ==
  [error |-> TRUE, user_id |-> Absent, product_id |-> Absent,
   interaction_type |-> Absent, rating |-> Absent]

\* data.get(key, default)
Get(value, default) == IF value.type = "absent" THEN default ELSE value

validate_interaction_payload(data) ==
  LET interaction_type == Get(data.interaction_type, JStr("view"))
      rating == Get(data.rating, JNull)
  IN IF \A key \in DOMAIN data : data[key].type = "absent" THEN ValidationError
     ELSE IF data.user_id.type = "absent" THEN ValidationError
     ELSE IF data.product_id.type = "absent" THEN ValidationError
     ELSE IF ~validate_user_id(data.user_id) THEN ValidationError
     ELSE IF ~validate_product_id(data.product_id) THEN ValidationError
     ELSE IF ~validate_interaction_type(interaction_type) THEN ValidationError
     ELSE IF rating.type # "null" /\ ~validate_rating(rating) THEN ValidationError
     ELSE [error |-> FALSE, user_id |-> data.user_id,
           product_id |-> data.product_id,
           interaction_type |-> interaction_type, rating |-> rating]

InitValidator ==
  /\ products_df = <<>>
  /\ product_similarity_matrix = None
  /\ interactions_df = <<>>
  /\ request = NoRequest
  /\ response = <<>>
  /\ pc = [t \in Threads |-> "idle"]
  /\ frame = [t \in Threads |-> <<>>]

ValidateInteractionPayload ==
  \E data \in Payloads :
    /\ request = NoRequest
    /\ request' = [op |-> "validate_interaction_payload", data |-> data]
    /\ response' = validate_interaction_payload(data)
    /\ UNCHANGED <<engine, threads>>

NextValidator ==
  \/ ValidateInteractionPayload
  \/ Return

SpecValidator == InitValidator /\ [][NextValidator]_vars

(***************************************************************************)
(* The service layer in front of the engine, on a catalog with more rows   *)
(* than the candidate width: get_user_recommendations validates the limit  *)
(* against MAX_RECOMMENDATIONS_LIMIT and calls the engine with the result. *)
(* The user ids drawn are valid ones.                                      *)
(***************************************************************************)
\* Validator.validate_limit: an error below 1, the maximum above it
\* a validation that lets every limit of 1 and more through as it is
validate_limit_unclamped(limit, max_limit) ==
  IF limit < 1 THEN [error |-> TRUE, limit |-> 0]
  ELSE [error |-> FALSE, limit |-> limit]

\* (the query string is parsed with type=int: int(limit) is the integer)
validate_limit(limit, max_limit) ==
  IF limit < 1 THEN [error |-> TRUE, limit |-> 0]
  ELSE IF limit > max_limit THEN [error |-> FALSE, limit |-> max_limit]
  ELSE [error |-> FALSE, limit |-> limit]

InitService ==
  /\ products_df \in WideCatalogs
  /\ product_similarity_matrix = initialize_models(products_df)
  /\ interactions_df = <<>>
  /\ request = NoRequest
  /\ response = <<>>
  /\ pc = [t \in Threads |-> "idle"]
  /\ frame = [t \in Threads |-> <<>>]

\* a call of the service: the request of the engine, with the limit that was
\* asked and the maximum it was validated against
ServiceRequest(op, user_id, requested, max_limit, limit) ==
  Request(op, user_id, "-", "-", limit)
    @@ [requested |-> requested, max_limit |-> max_limit]

\* RecommendationService.get_user_recommendations
ServiceGetUserRecommendations ==
  \E user_id \in Users, requested \in RequestedLimits :
    LET validated == validate_limit(requested, MAX_RECOMMENDATIONS_LIMIT)
    IN /\ request = NoRequest
       /\ IF validated.error
          THEN /\ request' = ServiceRequest("ValidationError", user_id, requested,
                                            MAX_RECOMMENDATIONS_LIMIT, requested)
               /\ response' = <<>>
          ELSE /\ request' = ServiceRequest("for_user", user_id, requested,
                                            MAX_RECOMMENDATIONS_LIMIT, validated.limit)
               /\ response' \in get_recommendations_for_user(
                                  products_df, product_similarity_matrix,
                                  interactions_df, user_id, validated.limit)
       /\ UNCHANGED <<engine, threads>>

\* RecommendationService.get_trending_products
ServiceGetTrendingProducts ==
  \E requested \in RequestedPageSizes :
    LET validated == validate_limit(requested, MAX_PAGE_SIZE)
    IN /\ request = NoRequest
       /\ IF validated.error
          THEN /\ request' = ServiceRequest("ValidationError", "-", requested,
                                            MAX_PAGE_SIZE, requested)
               /\ response' = <<>>
          ELSE /\ request' = ServiceRequest("trending", "-", requested,
                                            MAX_PAGE_SIZE, validated.limit)
               /\ response' = get_trending_products(products_df, validated.limit)
       /\ UNCHANGED <<engine, threads>>

NextService ==
  \/ ServiceGetUserRecommendations
  \/ ServiceGetTrendingProducts
  \/ AddUserInteraction
  \/ Return

SpecService == InitService /\ [][NextService]_vars

(***************************************************************************)
(* POST /interaction: the route reads the JSON body, the service validates *)
(* the payload and the engine appends the record.  The status codes are    *)
(* those of config/constants.py, which is not among the sources: they are  *)
(* taken from the route's documented responses.                            *)
(***************************************************************************)
HTTP_CREATED == 201
HTTP_BAD_REQUEST == 400
HTTP_INTERNAL_ERROR == 500

\* the JSON objects that are posted: {} is the object with no key
RoutePayloads ==
  [user_id : {Absent, JStr(""), JStr("u1")},
   product_id : {Absent, JStr(ProductIds[1])},
   interaction_type : {Absent, JNull, JStr("purchase"), JStr("refund")},
   rating : {Absent, JNum(45), JNum(MAX_RATING + 1)}]

EmptyObject ==
  [user_id |-> Absent, product_id |-> Absent,
   interaction_type |-> Absent, rating |-> Absent]

\* the request bodies: no body at all (with or without the JSON content
\* type), the JSON value null, and a JSON object
RequestBodies ==
  {[kind |-> "none", json |-> j, data |-> EmptyObject] : j \in BOOLEAN}
    \cup {[kind |-> "null", json |-> TRUE, data |-> EmptyObject]}
    \cup {[kind |-> "object", json |-> TRUE, data |-> d] : d \in RoutePayloads}

\* request.get_json(): a body that is not JSON text makes it raise
\* BadRequest; without the JSON content type it returns None or raises,
\* depending on the Flask release that is installed
get_json(body) ==
  IF body.kind = "none"
  THEN IF body.json
       THEN {[raised |-> TRUE, none |-> FALSE, data |-> EmptyObject]}
       ELSE {[raised |-> TRUE, none |-> FALSE, data |-> EmptyObject],
             [raised |-> FALSE, none |-> TRUE, data |-> EmptyObject]}
  ELSE IF body.kind = "null"
  THEN {[raised |-> FALSE, none |-> TRUE, data |-> EmptyObject]}
  ELSE {[raised |-> FALSE, none |-> FALSE, data |-> body.data]}

\* the payload the service builds from the route's keyword arguments: every
\* key is there, None for a key the body does not have, 'view' for the type
ServicePayload(data) ==
  [user_id |-> Get(data.user_id, JNull),
   product_id |-> Get(data.product_id, JNull),
   interaction_type |-> Get(data.interaction_type, JStr("view")),
   rating |-> Get(data.rating, JNull)]

\* the record the engine appends for a validated payload
ValidatedInteraction(validated_data, timestamp) ==
  NewInteraction(validated_data.user_id.str, validated_data.product_id.str,
                 validated_data.interaction_type.str,
                 IF validated_data.rating.type = "null" THEN NoRating
                 ELSE validated_data.rating.num,
                 timestamp)

InitRoute ==
  /\ products_df = ScenarioCatalog
  /\ product_similarity_matrix = initialize_models(products_df)
  /\ interactions_df = <<>>
  /\ request = NoRequest
  /\ response = <<>>
  /\ pc = [t \in Threads |-> "idle"]
  /\ frame = [t \in Threads |-> <<>>]

\* add_interaction (routes.py) with RecommendationService.add_user_interaction
add_interaction ==
  \E body \in RequestBodies :
    \E got \in get_json(body) :
      LET validated_data == validate_interaction_payload(ServicePayload(got.data))
          not_data == got.none \/ got.data = EmptyObject
          recorded == ~got.raised /\ ~not_data /\ ~validated_data.error
      IN /\ request = NoRequest
         /\ recorded => Len(interactions_df) < MaxLog
         /\ request' = [op |-> "POST /interaction", body |-> body]
         /\ response' =
              [status |-> IF got.raised THEN HTTP_INTERNAL_ERROR
                          ELSE IF not_data THEN HTTP_BAD_REQUEST
                          ELSE IF validated_data.error THEN HTTP_BAD_REQUEST
                          ELSE HTTP_CREATED]
         /\ interactions_df' =
              IF recorded
              THEN Concat(interactions_df,
                          ValidatedInteraction(validated_data, Now(interactions_df)))
              ELSE interactions_df
         /\ UNCHANGED <<products_df, product_similarity_matrix, threads>>

NextRoute ==
  \/ add_interaction
  \/ Return

SpecRoute == InitRoute /\ [][NextRoute]_vars

(***************************************************************************)
(* The engine shared by request threads (api/routes.py builds one service  *)
(* at import, and app.run serves each request in its own thread).  Nothing *)
(* in add_user_interaction holds a lock: it builds the record, reads       *)
(* self.interactions_df, concatenates off to the side and then assigns the *)
(* attribute, and another thread can run between the read and the          *)
(* assignment.  get_recommendations_for_user reads self.interactions_df    *)
(* twice in its first statement, once for the frame that is indexed and    *)
(* once for the boolean mask, and another thread can run between the two   *)
(* reads.  Each thread makes one call.                                     *)
(***************************************************************************)
\* lines 214-224: the record is built and self.interactions_df is read
AddReadLog(t) ==
  \E call \in InteractionCalls, input \in InteractionInputs :
   LET user_id == call[1]
       product_id == call[2]
   IN
    /\ pc[t] = "idle"
    /\ frame' = [frame EXCEPT ![t] =
         [interactions_df |-> interactions_df,
          new_interaction |->
            NewInteraction(user_id, product_id, input.interaction_type,
                           input.rating, Now(interactions_df))]]
    /\ pc' = [pc EXCEPT ![t] = "concat"]
    /\ UNCHANGED <<engine, request, response>>

\* lines 222-227: the concatenation is assigned and the call returns True
AddAssignLog(t) ==
  /\ pc[t] = "concat"
  /\ interactions_df' = Concat(frame[t].interactions_df, frame[t].new_interaction)
  /\ pc' = [pc EXCEPT ![t] = "returned"]
  /\ UNCHANGED <<products_df, product_similarity_matrix, request, response, frame>>

\* frame[mask] for a boolean Series mask: a mask that lacks a label of the
\* frame's index cannot be aligned (IndexingError); otherwise the mask is
\* reindexed to the frame's index and picks the frame's rows by label
BooleanIndex(df, mask) ==
  LET picked[n \in 0..Len(df)] ==
        IF n = 0 THEN <<>>
        ELSE IF mask[n] THEN Append(picked[n - 1], df[n]) ELSE picked[n - 1]
  IN IF Len(mask) < Len(df)
     THEN [raised |-> TRUE, rows |-> <<>>]
     ELSE [raised |-> FALSE, rows |-> picked[Len(df)]]

\* lines 90-117, from the selected user_interactions on
RecommendationsFrom(df, matrix, user_interactions, limit) ==
  IF user_interactions = <<>>
  THEN {get_trending_products(df, limit)}
  ELSE LET interacted_products ==
             {r.product_id : r \in Range(user_interactions)}
       IN {Personalised(df, matrix, interacted_products, order, limit) :
             order \in IterationOrders(interacted_products)}

\* line 86: self.interactions_df is read for the frame to index
ForUserReadFrame(t) ==
  \E user_id \in Users :
    /\ pc[t] = "idle"
    /\ frame' = [frame EXCEPT ![t] =
         [user_id |-> user_id, interactions_df |-> interactions_df]]
    /\ pc' = [pc EXCEPT ![t] = "mask"]
    /\ UNCHANGED <<engine, request, response>>

\* lines 87-117: self.interactions_df is read again for the mask, the frame
\* read before is indexed with it, and the recommendations are built from
\* the selection
ForUserSelect(t) ==
  LET mask == [i \in DOMAIN interactions_df |->
                 interactions_df[i].user_id = frame[t].user_id]
      user_interactions == BooleanIndex(frame[t].interactions_df, mask)
  IN /\ pc[t] = "mask"
     /\ IF user_interactions.raised
        THEN /\ pc' = [pc EXCEPT ![t] = "raised"]
             /\ frame' = frame
        ELSE /\ pc' = [pc EXCEPT ![t] = "recommended"]
             /\ \E recommendations \in
                    RecommendationsFrom(products_df, product_similarity_matrix,
                                        user_interactions.rows,
                                        DEFAULT_RECOMMENDATIONS_LIMIT) :
                  frame' = [frame EXCEPT ![t] =
                    [user_id |-> frame[t].user_id,
                     user_interactions |-> user_interactions.rows,
                     recommendations |-> recommendations]]
     /\ UNCHANGED <<engine, request, response>>

NextThreads ==
  \E t \in Threads :
    \/ AddReadLog(t)
    \/ AddAssignLog(t)
    \/ ForUserReadFrame(t)
    \/ ForUserSelect(t)

SpecThreads == Init /\ [][NextThreads]_vars

(***************************************************************************)
(* Properties.                                                             *)
(***************************************************************************)
ResponseIds == {response[n].product_id : n \in DOMAIN response}

CatalogIds == {products_df[i].product_id : i \in DOMAIN products_df}

\* the product ids recorded against the user of the request
RequestUserProducts ==
  {interactions_df[i].product_id :
     i \in {j \in DOMAIN interactions_df :
              interactions_df[j].user_id = request.user_id}}

\* C1: get_similar_products(p.id, k) for a catalog product p never contains
\* p.id itself, also when an earlier row has the same feature vector as p.
SimilarExcludesQuery ==
  (request.op = "similar" /\ request.product_id \in CatalogIds)
    => request.product_id \notin ResponseIds

\* C2: get_recommendations_for_user never returns a product id that occurs
\* in an interaction recorded for that user.
ForUserExcludesInteracted ==
  request.op = "for_user" => ResponseIds \cap RequestUserProducts = {}

ForUserExcludesInteractedWitness ==
  /\ request.op = "for_user"
  /\ {ProductIds[1], ProductIds[2]} \subseteq RequestUserProducts
  /\ Len(products_df) >= 3
  /\ response # <<>>

\* C3: for a user with no recorded interaction, whatever the other users
\* recorded, get_recommendations_for_user returns the ordered list of
\* get_trending_products for the same limit.
NewUserGetsTrending ==
  (request.op = "for_user" /\ RequestUserProducts = {})
    => response = get_trending_products(products_df, request.limit)

NewUserGetsTrendingWitness ==
  /\ request.op = "for_user"
  /\ RequestUserProducts = {}
  /\ \E i \in DOMAIN interactions_df :
        interactions_df[i].product_id \in CatalogIds
  /\ Len(products_df) >= 2
  /\ Len(response) = request.limit

\* C4: the list returned by get_recommendations_for_user never contains the
\* same product id twice.
ForUserNoDuplicates ==
  request.op = "for_user"
    => \A n, m \in DOMAIN response :
         response[n].product_id = response[m].product_id => n = m

\* two interacted catalog products share their neighbour, row 3
ForUserNoDuplicatesWitness ==
  /\ request.op = "for_user"
  /\ RequestUserProducts = {ProductIds[1], ProductIds[2]}
  /\ Len(products_df) >= 3
  /\ ResponseIds = {ProductIds[3]}

\* C5: two runs with the same catalog, the same interaction log and the
\* same (user, limit) return the same ordered list with the same scores:
\* the response is the one every iteration order of the set produces.
ForUserReproducible ==
  request.op = "for_user"
    => \A other \in get_recommendations_for_user(
                      products_df, product_similarity_matrix, interactions_df,
                      request.user_id, request.limit) :
         other = response

\* C6: once all concurrent add_user_interaction calls have returned, the
\* log holds one record per call.
NoAppendLost ==
  (\A t \in Threads : pc[t] # "concat")
    => Len(interactions_df) = Cardinality({t \in Threads : pc[t] = "returned"})

IsPrefix(a, b) == Len(a) <= Len(b) /\ SubSeq(b, 1, Len(a)) = a

\* C7: in a sequential run the log only grows at its end: every step leaves
\* the earlier log as a prefix, and a step of add_user_interaction returns
\* True and appends exactly one record, that of the call, whether or not
\* its product id is in the catalog.
LogAppendOnly ==
  [][ /\ IsPrefix(interactions_df, interactions_df')
      /\ request'.op = "add"
           => /\ response' = TRUE
              /\ Len(interactions_df') = Len(interactions_df) + 1
              /\ interactions_df'[Len(interactions_df')].user_id = request'.user_id
              /\ interactions_df'[Len(interactions_df')].product_id
                   = request'.product_id ]_vars

\* a record of a product that is not in the catalog follows another record
LogAppendOnlyWitness ==
  /\ request.op = "add"
  /\ request.product_id \notin CatalogIds
  /\ Len(interactions_df) >= 2
  /\ interactions_df[1].product_id \in CatalogIds

\* C8: no step changes the catalog or the similarity matrix, and a step
\* that is not add_user_interaction leaves the interaction log unchanged;
\* get_trending_products, get_products_by_category and get_similar_products
\* give the same results after an interaction is recorded as before it.
OnlyLogMutated ==
  [][ /\ products_df' = products_df
      /\ product_similarity_matrix' = product_similarity_matrix
      /\ request'.op # "add" => interactions_df' = interactions_df
      /\ request'.op = "add" =>
           \A k \in Limits :
             /\ get_trending_products(products_df', k)
                  = get_trending_products(products_df, k)
             /\ \A c \in QueryCategories :
                  get_products_by_category(products_df', c, k)
                    = get_products_by_category(products_df, c, k)
             /\ \A p \in QueryProducts :
                  get_similar_products(products_df', product_similarity_matrix', p, k)
                    = get_similar_products(products_df, product_similarity_matrix, p, k)
    ]_vars

\* a read answered after interactions with catalog products were recorded
OnlyLogMutatedWitness ==
  /\ request.op \in {"trending", "category", "similar", "for_user"}
  /\ response # <<>>
  /\ Len(interactions_df) >= 2
  /\ \A i \in DOMAIN interactions_df : interactions_df[i].product_id \in CatalogIds

\* the catalog row that carries a returned product id
RowOf(product_id) ==
  CHOOSE i \in DOMAIN products_df : products_df[i].product_id = product_id

\* C9: the items of get_similar_products are in non-increasing order of
\* similarity score, and of two items with equal score the one of the
\* smaller catalog row comes first.
SimilarSortedStable ==
  request.op = "similar"
    => \A n, m \in DOMAIN response :
         n < m =>
           LET a == response[n].similarity_score
               b == response[m].similarity_score
           IN /\ a[1] * b[2] >= b[1] * a[2]
              /\ a[1] * b[2] = b[1] * a[2]
                   => RowOf(response[n].product_id) < RowOf(response[m].product_id)

\* two items of equal score, below the score of the query's own row
SimilarSortedStableWitness ==
  /\ request.op = "similar"
  /\ Len(response) >= 2
  /\ response[1].similarity_score = response[2].similarity_score
  /\ response[1].similarity_score # <<1, 1>>

\* C10: for a catalog product and k >= 1 get_similar_products returns
\* min(k, N - 1) items, so at most k, each the id of a catalog product.
SimilarCountAndIds ==
  (request.op = "similar" /\ request.product_id \in CatalogIds)
    => /\ Len(response) <= request.limit
       /\ Len(response) = IF request.limit < Len(products_df) - 1
                          THEN request.limit ELSE Len(products_df) - 1
       /\ ResponseIds \subseteq CatalogIds

\* the limit cuts the list: fewer items than the other products
SimilarCountAndIdsWitness ==
  /\ request.op = "similar"
  /\ request.product_id \in CatalogIds
  /\ request.limit < Len(products_df) - 1
  /\ Len(response) = request.limit

\* C11: the reads are total on absent data: get_similar_products of an id
\* that is not in the catalog, get_products_by_category of a category no
\* product has, and each of the four reads on an empty catalog return the
\* empty list.
AbsentDataGivesEmpty ==
  /\ (request.op = "similar" /\ request.product_id \notin CatalogIds)
       => response = <<>>
  /\ (request.op = "category"
        /\ \A i \in DOMAIN products_df :
              Lower(products_df[i].category) # Lower(request.category))
       => response = <<>>
  /\ (request.op \in {"similar", "trending", "category", "for_user"}
        /\ products_df = <<>>)
       => response = <<>>

\* an unknown id asked of a catalog that has rows
AbsentDataGivesEmptyWitness ==
  /\ request.op = "similar"
  /\ request.product_id \notin CatalogIds
  /\ Len(products_df) >= 2
  /\ response = <<>>

\* ten times the trending score of a row or of a returned record
Score10(r) == 3 * r.views + 5 * r.purchases + 20 * r.rating

MinOf(a, b) == IF a < b THEN a ELSE b

\* C12: get_trending_products(limit) returns the min(limit, N) products of
\* highest score views*0.3 + purchases*0.5 + rating*100*0.2, in descending
\* score, equal scores in catalog row order; on the catalog P1, P2, P3 of
\* the scenario trending(2) is [P1, P2].
TrendingTopByScore ==
  request.op = "trending" =>
    /\ Len(response) = MinOf(request.limit, Len(products_df))
    /\ ResponseIds \subseteq CatalogIds
    /\ \A n, m \in DOMAIN response :
         n < m => \/ Score10(response[n]) > Score10(response[m])
                  \/ /\ Score10(response[n]) = Score10(response[m])
                     /\ RowOf(response[n].product_id) < RowOf(response[m].product_id)
    /\ \A n \in DOMAIN response :
         \A i \in DOMAIN products_df :
           products_df[i].product_id \notin ResponseIds =>
             \/ Score10(response[n]) > Score10(products_df[i])
             \/ /\ Score10(response[n]) = Score10(products_df[i])
                /\ RowOf(response[n].product_id) < i
    /\ (products_df = ScenarioCatalog /\ request.limit = 2)
         => [n \in DOMAIN response |-> response[n].product_id] = <<"P1", "P2">>

TrendingTopByScoreWitness ==
  /\ request.op = "trending"
  /\ products_df = ScenarioCatalog
  /\ request.limit = 2
  /\ Len(response) = 2

\* the catalog rows whose category is the requested one, letter case aside
RequestCategoryRows ==
  {i \in DOMAIN products_df :
     Lower(products_df[i].category) = Lower(request.category)}

\* C13: get_products_by_category returns only products of the category,
\* compared without regard to letter case, min(limit, matches) of them, so
\* at most limit, those of highest rating in descending rating, equal
\* ratings in catalog row order.
CategoryTopByRating ==
  request.op = "category" =>
    /\ Len(response) <= request.limit
    /\ Len(response) = MinOf(request.limit, Cardinality(RequestCategoryRows))
    /\ \A n \in DOMAIN response :
         /\ response[n].product_id \in CatalogIds
         /\ RowOf(response[n].product_id) \in RequestCategoryRows
    /\ \A n, m \in DOMAIN response :
         n < m => \/ response[n].rating > response[m].rating
                  \/ /\ response[n].rating = response[m].rating
                     /\ RowOf(response[n].product_id) < RowOf(response[m].product_id)
    /\ \A n \in DOMAIN response :
         \A i \in RequestCategoryRows :
           products_df[i].product_id \notin ResponseIds =>
             \/ response[n].rating > products_df[i].rating
             \/ /\ response[n].rating = products_df[i].rating
                /\ RowOf(response[n].product_id) < i

\* "electronics" asked of "Electronics" rows, more of them than the limit
CategoryTopByRatingWitness ==
  /\ request.op = "category"
  /\ request.category = "electronics"
  /\ Cardinality(RequestCategoryRows) > request.limit
  /\ Len(response) = request.limit

\* the concatenation of get_similar_products(q, 10) over the products q of
\* an order
RECURSIVE CandidateStream(_)
CandidateStream(order) ==
  IF order = <<>> THEN <<>>
  ELSE get_similar_products(products_df, product_similarity_matrix,
                            Head(order), CandidateWidth)
         \o CandidateStream(Tail(order))

\* the positions of a stream that hold the first occurrence of a product id
\* the user of the request has not interacted with
KeptPositions(stream) ==
  {i \in DOMAIN stream :
     /\ stream[i].product_id \notin RequestUserProducts
     /\ \A j \in 1..(i - 1) : stream[j].product_id # stream[i].product_id}

\* the entries at the first `limit` kept positions, in stream order
FirstKept(stream, limit) ==
  LET kept == KeptPositions(stream)
  IN [k \in 1..MinOf(limit, Cardinality(kept)) |->
        stream[CHOOSE i \in kept : Cardinality({j \in kept : j < i}) = k - 1]]

\* C14: for a user with interactions get_recommendations_for_user returns
\* the first `limit` entries of the concatenation of get_similar_products(q,
\* 10) over the user's products q (in some order of them), without the
\* entries of products the user interacted with, each product id kept at
\* its first occurrence with the score it has there, in stream order.
ForUserFirstOfStream ==
  (request.op = "for_user" /\ RequestUserProducts # {})
    => \E order \in IterationOrders(RequestUserProducts) :
         response = FirstKept(CandidateStream(order), request.limit)

\* the limit cuts the stream of one interacted product
ForUserFirstOfStreamWitness ==
  /\ request.op = "for_user"
  /\ RequestUserProducts = {ProductIds[2]}
  /\ Len(products_df) >= 3
  /\ request.limit = 1
  /\ Len(response) = 1

\* C15: when the user of the request has interacted only with the catalog
\* product p and q is the product most similar to p, the answer for limit 5
\* starts with q, does not contain p and holds similarity records, none
\* from the trending ranking.
MostSimilarComesFirst ==
  \A p, q \in DOMAIN products_df :
    ( /\ request.op = "for_user"
      /\ request.limit = DEFAULT_RECOMMENDATIONS_LIMIT
      /\ p # q
      /\ RequestUserProducts = {products_df[p].product_id}
      /\ \A j \in DOMAIN products_df \ {p, q} :
           FracGreater(product_similarity_matrix[p][q],
                       product_similarity_matrix[p][j]) )
    => /\ response # <<>>
       /\ response[1].product_id = products_df[q].product_id
       /\ products_df[p].product_id \notin ResponseIds
       /\ \A n \in DOMAIN response : "similarity_score" \in DOMAIN response[n]

\* C17: when the user's interactions name ids that are not in the catalog
\* and ids that are, the answer is the one the catalog ids alone produce:
\* the dangling ids add no candidate and stop no other product's.
DanglingAddsNothing ==
  ( /\ request.op = "for_user"
    /\ RequestUserProducts \ CatalogIds # {}
    /\ RequestUserProducts \cap CatalogIds # {} )
    => \E order \in IterationOrders(RequestUserProducts \cap CatalogIds) :
         response = FirstKept(CandidateStream(order), request.limit)

DanglingAddsNothingWitness ==
  /\ request.op = "for_user"
  /\ RequestUserProducts = {ProductIds[1], DanglingId}
  /\ Len(products_df) >= 2
  /\ response # <<>>

\* the results get_recommendations_for_user can return in the current state
\* with another log
ResultsWithLog(log, user_id, limit) ==
  get_recommendations_for_user(products_df, product_similarity_matrix,
                               log, user_id, limit)

\* C18: recording an interaction for one user changes the result of
\* get_recommendations_for_user for no other user.
NoCrossUserSignal ==
  [][ request'.op = "add" =>
        \A b \in Users \ {request'.user_id} :
          \A limit \in UserLimits :
            ResultsWithLog(interactions_df', b, limit)
              = ResultsWithLog(interactions_df, b, limit) ]_vars

\* a user records a catalog product after the other user recorded another
NoCrossUserSignalWitness ==
  /\ request.op = "add"
  /\ Len(interactions_df) >= 2
  /\ Len(products_df) >= 3
  /\ interactions_df[1].user_id # request.user_id
  /\ interactions_df[1].product_id \in CatalogIds
  /\ request.product_id \in CatalogIds
  /\ request.product_id # interactions_df[1].product_id

\* the log as it is when the same interactions are appended in the reverse
\* order
Reordered(log) ==
  [i \in DOMAIN log |-> [log[Len(log) + 1 - i] EXCEPT !.timestamp = i]]

\* the log as it is when every interaction is a rated purchase, at other times
Retyped(log) ==
  [i \in DOMAIN log |->
     [log[i] EXCEPT !.interaction_type = "purchase", !.rating = 50,
                    !.timestamp = @ + 7]]

\* the log as it is when every interaction is appended once more
Repeated(log) ==
  log \o [i \in DOMAIN log |-> [log[i] EXCEPT !.timestamp = Len(log) + i]]

WidthCoversLimit ==
  ( /\ request.op = "for_user"
    /\ Cardinality(RequestUserProducts) = 1
    /\ RequestUserProducts \subseteq CatalogIds
    /\ Len(products_df) >= request.limit + 1 )
    => /\ CandidateWidth > request.limit
       /\ Len(response) = request.limit

\* the values self.interactions_df has held: the empty log of construction
\* and what each returned add_user_interaction call assigned
Held ==
  {<<>>} \cup {Concat(frame[t].interactions_df, frame[t].new_interaction) :
                 t \in {w \in Threads : pc[w] = "returned"}}

\* C20: the interactions a get_recommendations_for_user call uses, when it
\* runs concurrently with add_user_interaction calls, are the user's
\* interactions in a state the log held at some point.
ForUserSeesHeldLog ==
  \A t \in Threads :
    pc[t] = "recommended"
      => \E log \in Held :
           frame[t].user_interactions
             = SelectSeq(log, LAMBDA r : r.user_id = frame[t].user_id)

\* C21: validate_limit raises for every limit below 1 and returns the
\* smaller of the limit and the maximum for every limit from 1 up; so the
\* limit that reaches the engine lies in 1..max_limit, and validating it
\* again returns it unchanged.
LimitClamped ==
  /\ request.op = "ValidationError" => request.requested < 1
  /\ request.op \in {"for_user", "trending"} =>
       /\ request.requested >= 1
       /\ request.limit = IF request.requested < request.max_limit
                          THEN request.requested ELSE request.max_limit
       /\ request.limit \in 1..request.max_limit
       /\ validate_limit(request.limit, request.max_limit)
            = [error |-> FALSE, limit |-> request.limit]

\* a limit above the maximum reached the engine as the maximum
LimitClampedWitness ==
  /\ request.op = "for_user"
  /\ request.requested > MAX_RECOMMENDATIONS_LIMIT
  /\ request.limit = MAX_RECOMMENDATIONS_LIMIT
  /\ response # <<>>

\* the smallest and the largest value of a catalog column
ColumnMin(column) == Min({column[i] : i \in DOMAIN column})
ColumnMax(column) == Max({column[i] : i \in DOMAIN column})

\* a scaled value n/d is (x - min)/(max - min), and 0 when max = min
IsScaled(scaled, x, lo, hi) ==
  /\ scaled[2] > 0
  /\ 0 <= scaled[1] /\ scaled[1] <= scaled[2]
  /\ IF hi = lo THEN scaled[1] = 0
     ELSE scaled[1] * (hi - lo) = (x - lo) * scaled[2]

\* C23: every product's feature vector has exactly one 1 among its category
\* columns, the one of its own category, and its price and rating columns
\* are (x - min)/(max - min) over the whole catalog, in [0,1], and 0 for
\* every row when max = min.
FeaturesOneHotScaled ==
  LET features == Features(products_df)
      prices == [i \in DOMAIN products_df |-> products_df[i].price]
      ratings == [i \in DOMAIN products_df |-> products_df[i].rating]
  IN \A i \in DOMAIN products_df :
       /\ DOMAIN features[i].dummies = {products_df[j].category : j \in DOMAIN products_df}
       /\ \A c \in DOMAIN features[i].dummies :
            features[i].dummies[c] = IF c = products_df[i].category THEN 1 ELSE 0
       /\ Cardinality({c \in DOMAIN features[i].dummies : features[i].dummies[c] = 1}) = 1
       /\ IsScaled(features[i].price, prices[i], ColumnMin(prices), ColumnMax(prices))
       /\ IsScaled(features[i].rating, ratings[i], ColumnMin(ratings), ColumnMax(ratings))

\* a catalog of two categories whose rows all have the same price and the
\* same rating (max = min), queried after its features were built
FeaturesOneHotScaledWitness ==
  /\ Len(products_df) >= 2
  /\ Cardinality({products_df[i].category : i \in DOMAIN products_df}) = 2
  /\ Cardinality({products_df[i].price : i \in DOMAIN products_df}) = 1
  /\ Cardinality({products_df[i].rating : i \in DOMAIN products_df}) = 1
  /\ request.op = "similar"
  /\ response # <<>>

RequestCandidateIds ==
  UNION { {rec.product_id :
             rec \in Range(get_similar_products(products_df,
                             product_similarity_matrix, p, CandidateWidth))}
          : p \in RequestUserProducts }

\* C27: for a user with at least one recorded interaction, in every state
\* from the first record on, get_recommendations_for_user does not fall
\* back to trending: every item returned is a similar-products record, and
\* when no interacted product is in the catalog, or every candidate is an
\* interacted product, the result is the empty list.
NoTrendingOnceInteracted ==
  (request.op = "for_user" /\ RequestUserProducts # {}) =>
    /\ \A n \in DOMAIN response :
         /\ "similarity_score" \in DOMAIN response[n]
         /\ "views" \notin DOMAIN response[n]
    /\ RequestUserProducts \cap CatalogIds = {} => response = <<>>
    /\ RequestCandidateIds \subseteq RequestUserProducts => response = <<>>

\* a user whose only interaction is with a product not in the catalog gets
\* the empty list while the trending list is not empty
NoTrendingOnceInteractedWitness ==
  /\ request.op = "for_user"
  /\ RequestUserProducts = {DanglingId}
  /\ Len(products_df) >= 2
  /\ get_trending_products(products_df, request.limit) # <<>>
  /\ response = <<>>

\* a value that is missing or empty: no key, null, or the empty string
MissingOrEmpty(value) ==
  \/ value.type \in {"absent", "null"}
  \/ value.type = "str" /\ value.str = ""

\* an interaction type that was given and is not one of the closed set
OutsideClosedSet(value) ==
  /\ value.type # "absent"
  /\ ~(value.type = "str" /\ value.str \in VALID_INTERACTION_TYPES)

\* a rating that was given and is not a number of the allowed range
OutsideAllowedRange(value) ==
  /\ value.type \notin {"absent", "null"}
  /\ ~(value.type = "num" /\ MIN_RATING <= value.num /\ value.num <= MAX_RATING)
  /\ ~(value.type = "str" /\ value.str = "4.5")

\* the payload comes back as it was given, the interaction type 'view'
\* when none was given and the rating None when none was given
ReturnedUnchanged ==
  /\ response.user_id = request.data.user_id
  /\ response.product_id = request.data.product_id
  /\ response.interaction_type
       = IF request.data.interaction_type.type = "absent" THEN JStr("view")
         ELSE request.data.interaction_type
  /\ response.rating
       = IF request.data.rating.type = "absent" THEN JNull
         ELSE request.data.rating

\* C22 as stated: validate_interaction_payload raises ValidationError exactly
\* when user_id or product_id is missing or empty, the interaction type is
\* outside the closed set or a given rating is outside the allowed range,
\* and otherwise returns the payload unchanged.
PayloadRaisesOnlyAsStated ==
  request.op = "validate_interaction_payload" =>
    LET data == request.data
        stated == \/ MissingOrEmpty(data.user_id)
                  \/ MissingOrEmpty(data.product_id)
                  \/ OutsideClosedSet(data.interaction_type)
                  \/ OutsideAllowedRange(data.rating)
    IN /\ response.error = stated
       /\ ~stated => ReturnedUnchanged

\* C22 as amended: it raises also when user_id or product_id is not a
\* string and when the length of user_id is outside
\* USER_ID_MIN_LENGTH..USER_ID_MAX_LENGTH; otherwise it returns the payload
\* unchanged.
PayloadValidated ==
  request.op = "validate_interaction_payload" =>
    LET data == request.data
        raises ==
          \/ MissingOrEmpty(data.user_id) \/ data.user_id.type # "str"
          \/ len(data.user_id.str) < USER_ID_MIN_LENGTH
          \/ len(data.user_id.str) > USER_ID_MAX_LENGTH
          \/ MissingOrEmpty(data.product_id) \/ data.product_id.type # "str"
          \/ OutsideClosedSet(data.interaction_type)
          \/ OutsideAllowedRange(data.rating)
    IN /\ response.error = raises
       /\ ~raises => ReturnedUnchanged

\* a payload without interaction type and rating came back with 'view'
PayloadValidatedWitness ==
  /\ request.op = "validate_interaction_payload"
  /\ request.data.interaction_type = Absent
  /\ request.data.rating = Absent
  /\ ~response.error
  /\ response.interaction_type = JStr("view")

\* C26: POST /interaction appends exactly one record and answers 201 when
\* the payload validates; when validation raises ValidationError, or the
\* request body is missing or empty, it answers 400 and leaves the log as
\* it is.
InteractionRecordedOrRejected ==
  [][ request'.op = "POST /interaction" =>
        LET body == request'.body
            missing_or_empty ==
              body.kind \in {"none", "null"} \/ body.data = EmptyObject
            validated_data == validate_interaction_payload(ServicePayload(body.data))
        IN IF ~missing_or_empty /\ ~validated_data.error
           THEN /\ response'.status = HTTP_CREATED
                /\ Len(interactions_df') = Len(interactions_df) + 1
                /\ SubSeq(interactions_df', 1, Len(interactions_df)) = interactions_df
                /\ interactions_df'[Len(interactions_df')].user_id = body.data.user_id.str
                /\ interactions_df'[Len(interactions_df')].product_id
                     = body.data.product_id.str
           ELSE /\ response'.status = HTTP_BAD_REQUEST
                /\ interactions_df' = interactions_df ]_vars

=============================================================================
